---- MODULE Spec2Model ----
(***************************************************************************)
(* The 64-bit xxHash streaming hasher of src/src/lib.rs (XXHasher, its     *)
(* Hasher implementation, oneshot and hash).                               *)
(*                                                                         *)
(* A u64 is the sequence of its 8 bytes, least significant first, which is *)
(* also its representation in memory on the little-endian targets the     *)
(* tests name.  All arithmetic is done on bytes, so that every operation   *)
(* wraps modulo 2^64 exactly as Wrapping<u64> does.                        *)
(***************************************************************************)
EXTENDS Integers, Sequences, FiniteSets, TLC

----------------------------------------------------------------------------
(* Bitwise operations on one byte.                                         *)

Pow2(n) == CASE n = 0 -> 1 [] n = 1 -> 2 [] n = 2 -> 4 [] n = 3 -> 8
             [] n = 4 -> 16 [] n = 5 -> 32 [] n = 6 -> 64 [] n = 7 -> 128
             [] OTHER -> 256

\* a ^ b, bit by bit
RECURSIVE XorBits(_, _)
XorBits(a, b) ==
    IF a = 0 THEN b
    ELSE IF b = 0 THEN a
    ELSE ((a + b) % 2) + 2 * XorBits(a \div 2, b \div 2)

\* a | b, bit by bit
RECURSIVE OrBits(_, _)
OrBits(a, b) ==
    IF a = 0 THEN b
    ELSE IF b = 0 THEN a
    ELSE (IF a % 2 = 1 \/ b % 2 = 1 THEN 1 ELSE 0) + 2 * OrBits(a \div 2, b \div 2)

\* the two operations tabulated once, for all pairs of bytes
XorTable ==
    SubSeq([a \in 1..256 |->
               SubSeq([b \in 1..256 |-> XorBits(a - 1, b - 1)], 1, 256)], 1, 256)

OrTable ==
    SubSeq([a \in 1..256 |->
               SubSeq([b \in 1..256 |-> OrBits(a - 1, b - 1)], 1, 256)], 1, 256)

XorB(a, b) == XorTable[a + 1][b + 1]

OrB(a, b) == OrTable[a + 1][b + 1]

----------------------------------------------------------------------------
(* Wrapping<u64>: a u64 is the tuple of its 8 bytes, least significant     *)
(* first; every operation is modulo 2^64.                                  *)

\* x as u64, for 0 <= x < 2^31
U64(x) ==
    <<x % 256, (x \div 256) % 256, (x \div 65536) % 256, x \div 16777216,
      0, 0, 0, 0>>

\* `as u64` of an unsigned integer of Len(x) bytes
AsU64(x) == x \o SubSeq(<<0, 0, 0, 0, 0, 0, 0, 0>>, 1, 8 - Len(x))

\* Wrapping<u64> + Wrapping<u64>
WAdd(a, b) ==
    LET s1 == a[1] + b[1]
        s2 == a[2] + b[2] + (s1 \div 256)
        s3 == a[3] + b[3] + (s2 \div 256)
        s4 == a[4] + b[4] + (s3 \div 256)
        s5 == a[5] + b[5] + (s4 \div 256)
        s6 == a[6] + b[6] + (s5 \div 256)
        s7 == a[7] + b[7] + (s6 \div 256)
        s8 == a[8] + b[8] + (s7 \div 256)
    IN  <<s1 % 256, s2 % 256, s3 % 256, s4 % 256, s5 % 256, s6 % 256, s7 % 256, s8 % 256>>

\* the carry out of a + b: 1 when the sum does not fit a u64
CarryOut(a, b) ==
    LET s1 == a[1] + b[1]
        s2 == a[2] + b[2] + (s1 \div 256)
        s3 == a[3] + b[3] + (s2 \div 256)
        s4 == a[4] + b[4] + (s3 \div 256)
        s5 == a[5] + b[5] + (s4 \div 256)
        s6 == a[6] + b[6] + (s5 \div 256)
        s7 == a[7] + b[7] + (s6 \div 256)
        s8 == a[8] + b[8] + (s7 \div 256)
    IN  s8 \div 256

\* Wrapping<u64> - Wrapping<u64>
WSub(a, b) ==
    LET d1 == a[1] - b[1]
        d2 == a[2] - b[2] - (IF d1 < 0 THEN 1 ELSE 0)
        d3 == a[3] - b[3] - (IF d2 < 0 THEN 1 ELSE 0)
        d4 == a[4] - b[4] - (IF d3 < 0 THEN 1 ELSE 0)
        d5 == a[5] - b[5] - (IF d4 < 0 THEN 1 ELSE 0)
        d6 == a[6] - b[6] - (IF d5 < 0 THEN 1 ELSE 0)
        d7 == a[7] - b[7] - (IF d6 < 0 THEN 1 ELSE 0)
        d8 == a[8] - b[8] - (IF d7 < 0 THEN 1 ELSE 0)
    IN  <<(d1 + 256) % 256, (d2 + 256) % 256, (d3 + 256) % 256, (d4 + 256) % 256, (d5 + 256) % 256, (d6 + 256) % 256, (d7 + 256) % 256, (d8 + 256) % 256>>

\* Wrapping<u64> * Wrapping<u64>: the low 8 bytes of the long product, ck
\* being column k with the carry of the columns below it
WMul(a, b) ==
    LET c1 == a[1] * b[1]
        c2 == a[1] * b[2] + a[2] * b[1] + (c1 \div 256)
        c3 == a[1] * b[3] + a[2] * b[2] + a[3] * b[1] + (c2 \div 256)
        c4 == a[1] * b[4] + a[2] * b[3] + a[3] * b[2] + a[4] * b[1] + (c3 \div 256)
        c5 == a[1] * b[5] + a[2] * b[4] + a[3] * b[3] + a[4] * b[2] + a[5] * b[1] + (c4 \div 256)
        c6 == a[1] * b[6] + a[2] * b[5] + a[3] * b[4] + a[4] * b[3] + a[5] * b[2] + a[6] * b[1] + (c5 \div 256)
        c7 == a[1] * b[7] + a[2] * b[6] + a[3] * b[5] + a[4] * b[4] + a[5] * b[3] + a[6] * b[2] + a[7] * b[1] + (c6 \div 256)
        c8 == a[1] * b[8] + a[2] * b[7] + a[3] * b[6] + a[4] * b[5] + a[5] * b[4] + a[6] * b[3] + a[7] * b[2] + a[8] * b[1] + (c7 \div 256)
    IN  <<c1 % 256, c2 % 256, c3 % 256, c4 % 256, c5 % 256, c6 % 256, c7 % 256, c8 % 256>>

\* Wrapping<u64> ^ Wrapping<u64>
WXor(a, b) == <<XorB(a[1], b[1]), XorB(a[2], b[2]), XorB(a[3], b[3]), XorB(a[4], b[4]), XorB(a[5], b[5]), XorB(a[6], b[6]), XorB(a[7], b[7]), XorB(a[8], b[8])>>

\* Wrapping<u64> | Wrapping<u64>
WOr(a, b) == <<OrB(a[1], b[1]), OrB(a[2], b[2]), OrB(a[3], b[3]), OrB(a[4], b[4]), OrB(a[5], b[5]), OrB(a[6], b[6]), OrB(a[7], b[7]), OrB(a[8], b[8])>>

ByteAt(x, i) == IF i >= 1 /\ i <= 8 THEN x[i] ELSE 0

\* Wrapping<u64> << n, 0 <= n < 64
WShl(x, n) ==
    LET q == n \div 8
        r == n % 8
        B(i) == ((ByteAt(x, i - q) * Pow2(r)) % 256)
                + (ByteAt(x, i - q - 1) \div Pow2(8 - r))
    IN  <<B(1), B(2), B(3), B(4), B(5), B(6), B(7), B(8)>>

\* Wrapping<u64> >> n, 0 <= n < 64
WShr(x, n) ==
    LET q == n \div 8
        r == n % 8
        B(i) == (ByteAt(x, i + q) \div Pow2(r))
                + ((ByteAt(x, i + q + 1) * Pow2(8 - r)) % 256)
    IN  <<B(1), B(2), B(3), B(4), B(5), B(6), B(7), B(8)>>

\* u64 & u64
WAnd(a, b) ==
    LET B(i) == (a[i] + b[i]) - OrB(a[i], b[i])
    IN  <<B(1), B(2), B(3), B(4), B(5), B(6), B(7), B(8)>>

\* !u64
WNot(x) ==
    <<255 - x[1], 255 - x[2], 255 - x[3], 255 - x[4],
      255 - x[5], 255 - x[6], 255 - x[7], 255 - x[8]>>

\* fn rotl64(x, b)
rotl64(x, b) == WOr(WShl(x, b), WShr(x, 64 - b))

\* Wrapping<u32> * Wrapping<u32>: the low 4 bytes of the product
WMul32(a, b) == SubSeq(WMul(AsU64(a), AsU64(b)), 1, 4)

\* u32 >> n
Shr32(x, n) == SubSeq(WShr(AsU64(x), n), 1, 4)

----------------------------------------------------------------------------
(* The constants of the crate.                                             *)

\* 18446744073709551557
HAPPY_SEED == <<197, 255, 255, 255, 255, 255, 255, 255>>
\* 11400714785074694791
PRIME1 == <<135, 202, 235, 133, 177, 121, 55, 158>>
\* 14029467366897019727
PRIME2 == <<79, 235, 212, 39, 61, 174, 178, 194>>
\*  1609587929392839161
PRIME3 == <<249, 121, 55, 158, 177, 103, 86, 22>>
\*  9650029242287828579
PRIME4 == <<99, 174, 178, 194, 119, 202, 235, 133>>
\*  2870177450012600261
PRIME5 == <<197, 103, 86, 22, 47, 235, 212, 39>>

----------------------------------------------------------------------------
(* struct XXHasher: a record with the fields of the struct.  memory is the *)
(* 32 bytes of [u64; 4] as transmute(&self.memory) addresses them.         *)

\* a < b for u64 values
WLt(a, b) ==
    \E i \in 1..8 :
        /\ a[i] < b[i]
        /\ \A j \in (i + 1)..8 : a[j] = b[j]

\* std::ptr::copy(src + soff, dst + doff, count)
copy(src, soff, dst, doff, count) ==
    SubSeq(dst, 1, doff) \o SubSeq(src, soff + 1, soff + count)
                         \o SubSeq(dst, doff + count + 1, Len(dst))

\* read_ptr!(p, rem, size): the size bytes at p as a little-endian integer,
\* p advanced and rem decreased by size
read_ptr(buf, p, rem, size) ==
    [data |-> SubSeq(buf, p + 1, p + size), p |-> p + size, rem |-> rem - size]

\* reset with the lanes forgotten: only the counters are cleared
reset_keep_lanes(self) ==
    [self EXCEPT !.total_len = U64(0),
                 !.memsize = 0]

\* XXHasher::reset
reset(self) ==
    [self EXCEPT !.v1 = WAdd(WAdd(self.seed, PRIME1), PRIME2),
                 !.v2 = WAdd(self.seed, PRIME2),
                 !.v3 = self.seed,
                 !.v4 = WSub(self.seed, PRIME1),
                 !.total_len = U64(0),
                 !.memsize = 0]

\* new_with_seed that drops its argument: every hasher has HAPPY_SEED
new_with_seed_dropped(seed, uninit) == reset([uninit EXCEPT !.seed = HAPPY_SEED])

\* XXHasher::new_with_seed; uninit is what mem::uninitialized() returned
new_with_seed(seed, uninit) == reset([uninit EXCEPT !.seed = seed])

\* XXHasher::new
new(uninit) == new_with_seed(HAPPY_SEED, uninit)

\* permute! of finish: the lane $v after its three steps
permute_v(v) == WMul(rotl64(WMul(v, PRIME2), 31), PRIME1)

\* permute! of finish: h after the lane $v was merged
permute(h, v) == WAdd(WMul(WXor(h, permute_v(v)), PRIME1), PRIME4)

\* merge with the lanes taken last to first: permute!(v4) ... permute!(v1)
merge_reversed(self) ==
    LET h == WAdd(WAdd(WAdd(rotl64(self.v1, 1), rotl64(self.v2, 7)),
                       rotl64(self.v3, 12)), rotl64(self.v4, 18))
    IN  permute(permute(permute(permute(h, self.v4), self.v3), self.v2), self.v1)

\* the else branch of finish: "we have saved state"
merge(self) ==
    LET h == WAdd(WAdd(WAdd(rotl64(self.v1, 1), rotl64(self.v2, 7)),
                       rotl64(self.v3, 12)), rotl64(self.v4, 18))
    IN  permute(permute(permute(permute(h, self.v1), self.v2), self.v3), self.v4)

\* tail8 with > for >=: eight bytes left are not read as one word
RECURSIVE tail8_more_than(_, _)
tail8_more_than(memory, t) ==
    IF t.rem > 8
    THEN LET r  == read_ptr(memory, t.p, t.rem, 8)
             k1 == WMul(rotl64(WMul(AsU64(r.data), PRIME2), 31), PRIME1)
             h  == WXor(t.h64, k1)
         IN  tail8_more_than(memory, [p |-> r.p, rem |-> r.rem,
                                      h64 |-> WAdd(WMul(rotl64(h, 27), PRIME1), PRIME4)])
    ELSE t

\* while rem >= 8 of finish; t is [p, rem, h64]
RECURSIVE tail8(_, _)
tail8(memory, t) ==
    IF t.rem >= 8
    THEN LET r  == read_ptr(memory, t.p, t.rem, 8)
             k1 == WMul(rotl64(WMul(AsU64(r.data), PRIME2), 31), PRIME1)
             h  == WXor(t.h64, k1)
         IN  tail8(memory, [p |-> r.p, rem |-> r.rem,
                            h64 |-> WAdd(WMul(rotl64(h, 27), PRIME1), PRIME4)])
    ELSE t

\* if rem >= 4 of finish
tail4(memory, t) ==
    IF t.rem >= 4
    THEN LET r == read_ptr(memory, t.p, t.rem, 4)
             h == WXor(t.h64, WMul(AsU64(r.data), PRIME1))
         IN  [p |-> r.p, rem |-> r.rem,
              h64 |-> WAdd(WMul(rotl64(h, 23), PRIME2), PRIME3)]
    ELSE t

\* tail1 with PRIME1 for PRIME5, as the four-byte step multiplies
RECURSIVE tail1_prime1(_, _)
tail1_prime1(memory, t) ==
    IF t.rem > 0
    THEN LET r == read_ptr(memory, t.p, t.rem, 1)
             h == WXor(t.h64, WMul(AsU64(r.data), PRIME1))
         IN  tail1_prime1(memory, [p |-> r.p, rem |-> r.rem,
                                   h64 |-> WMul(rotl64(h, 11), PRIME1)])
    ELSE t

\* while rem > 0 of finish
RECURSIVE tail1(_, _)
tail1(memory, t) ==
    IF t.rem > 0
    THEN LET r == read_ptr(memory, t.p, t.rem, 1)
             h == WXor(t.h64, WMul(AsU64(r.data), PRIME5))
         IN  tail1(memory, [p |-> r.p, rem |-> r.rem,
                            h64 |-> WMul(rotl64(h, 11), PRIME1)])
    ELSE t

\* the last five assignments of finish
avalanche(h64) ==
    LET a == WXor(h64, WShr(h64, 33))
        b == WMul(a, PRIME2)
        c == WXor(b, WShr(b, 29))
        d == WMul(c, PRIME3)
    IN  WXor(d, WShr(d, 32))

\* finish_head without the branch on total_len: the lanes are always merged
finish_head_merged(self) == WAdd(merge(self), self.total_len)

\* the accumulator of finish before the tail: the branch on total_len, plus
\* total_len
finish_head(self) ==
    WAdd(IF WLt(self.total_len, U64(32)) THEN WAdd(self.seed, PRIME5)
                                         ELSE merge(self),
         self.total_len)

\* the tail of finish over the whole buffer: rem starts at 32, not at memsize
finish_tail_whole_buffer(self) ==
    tail1(self.memory,
          tail4(self.memory,
                tail8(self.memory,
                      [p |-> 0, rem |-> 32, h64 |-> finish_head(self)])))

\* the tail of finish: [p, rem, h64] when no byte is left
finish_tail(self) ==
    tail1(self.memory,
          tail4(self.memory,
                tail8(self.memory,
                      [p |-> 0, rem |-> self.memsize, h64 |-> finish_head(self)])))

\* Hasher::finish
finish(self) == avalanche(finish_tail(self).h64)

\* eat! of the buffered stripe
eat_mem(v, w) == WMul(rotl64(WAdd(v, WMul(w, PRIME2)), 31), PRIME1)

\* eat! of the main loop
eat(v, w) == WMul(rotl64(WAdd(v, WMul(w, PRIME2)), 31), PRIME1)

\* fill_and_eat with the cursor left where it was: the bytes that filled the
\* buffer are read again
fill_and_eat_no_advance(c, input) ==
    IF c.self.memsize # 0
    THEN LET self == c.self
             bump == 32 - self.memsize
             mem  == copy(input, c.data, self.memory, self.memsize, bump)
         IN  [self |-> [self EXCEPT !.memory = mem,
                                    !.v1 = eat_mem(self.v1, SubSeq(mem, 1, 8)),
                                    !.v2 = eat_mem(self.v2, SubSeq(mem, 9, 16)),
                                    !.v3 = eat_mem(self.v3, SubSeq(mem, 17, 24)),
                                    !.v4 = eat_mem(self.v4, SubSeq(mem, 25, 32)),
                                    !.memsize = 0],
              data |-> c.data,
              rem  |-> c.rem - bump]
    ELSE c

\* "some data left from previous update": fill the buffer and eat it;
\* c is [self, data, rem], data the offset of the cursor in input
fill_and_eat(c, input) ==
    IF c.self.memsize # 0
    THEN LET self == c.self
             bump == 32 - self.memsize
             mem  == copy(input, c.data, self.memory, self.memsize, bump)
             r1   == read_ptr(mem, 0, 32, 8)
             r2   == read_ptr(mem, r1.p, r1.rem, 8)
             r3   == read_ptr(mem, r2.p, r2.rem, 8)
             r4   == read_ptr(mem, r3.p, r3.rem, 8)
         IN  [self |-> [self EXCEPT !.memory = mem,
                                    !.v1 = eat_mem(self.v1, r1.data),
                                    !.v2 = eat_mem(self.v2, r2.data),
                                    !.v3 = eat_mem(self.v3, r3.data),
                                    !.v4 = eat_mem(self.v4, r4.data),
                                    !.memsize = 0],
              data |-> c.data + bump,
              rem  |-> c.rem - bump]
    ELSE c

\* main_loop with the words crossed: v1 eats the second word, v2 the first
RECURSIVE main_loop_crossed(_, _)
main_loop_crossed(c, input) ==
    IF c.rem >= 32
    THEN LET self == c.self
             r1   == read_ptr(input, c.data, c.rem, 8)
             r2   == read_ptr(input, r1.p, r1.rem, 8)
             r3   == read_ptr(input, r2.p, r2.rem, 8)
             r4   == read_ptr(input, r3.p, r3.rem, 8)
         IN  main_loop_crossed(
                 [self |-> [self EXCEPT !.v1 = eat(self.v1, r2.data),
                                        !.v2 = eat(self.v2, r1.data),
                                        !.v3 = eat(self.v3, r3.data),
                                        !.v4 = eat(self.v4, r4.data)],
                  data |-> r4.p,
                  rem  |-> r4.rem], input)
    ELSE c

\* main_loop with an if for the while: one stripe is eaten at most
main_loop_once(c, input) ==
    IF c.rem >= 32
    THEN LET self == c.self
         IN  [self |-> [self EXCEPT
                           !.v1 = eat(self.v1, SubSeq(input, c.data + 1, c.data + 8)),
                           !.v2 = eat(self.v2, SubSeq(input, c.data + 9, c.data + 16)),
                           !.v3 = eat(self.v3, SubSeq(input, c.data + 17, c.data + 24)),
                           !.v4 = eat(self.v4, SubSeq(input, c.data + 25, c.data + 32))],
              data |-> c.data + 32,
              rem  |-> c.rem - 32]
    ELSE c

\* "the main loop: eat whole chunks"; the lanes live in c.self
RECURSIVE main_loop(_, _)
main_loop(c, input) ==
    IF c.rem >= 32
    THEN LET self == c.self
             r1   == read_ptr(input, c.data, c.rem, 8)
             r2   == read_ptr(input, r1.p, r1.rem, 8)
             r3   == read_ptr(input, r2.p, r2.rem, 8)
             r4   == read_ptr(input, r3.p, r3.rem, 8)
         IN  main_loop([self |-> [self EXCEPT !.v1 = eat(self.v1, r1.data),
                                              !.v2 = eat(self.v2, r2.data),
                                              !.v3 = eat(self.v3, r3.data),
                                              !.v4 = eat(self.v4, r4.data)],
                        data |-> r4.p,
                        rem  |-> r4.rem], input)
    ELSE c

\* save_rest copying from the start of the input, not from the cursor
save_rest_from_start(c, input) ==
    IF c.rem > 0
    THEN [c.self EXCEPT !.memory = copy(input, 0, c.self.memory, 0, c.rem),
                        !.memsize = c.rem]
    ELSE c.self

\* "we have data left, so save it"
save_rest(c, input) ==
    IF c.rem > 0
    THEN [c.self EXCEPT !.memory = copy(input, c.data, c.self.memory, 0, c.rem),
                        !.memsize = c.rem]
    ELSE c.self

\* fill_only without the copy: the bytes counted in memsize are whatever the
\* memory held
fill_only_no_copy(self, input) ==
    [self EXCEPT !.memsize = self.memsize + Len(input)]

\* fill_only copying to the start of the buffer, not after the bytes in it
fill_only_from_start(self, input) ==
    [self EXCEPT !.memory = copy(input, 0, self.memory, 0, Len(input)),
                 !.memsize = self.memsize + Len(input)]

\* the first branch of write: "just fill the buffer and return"
fill_only(self, input) ==
    [self EXCEPT !.memory = copy(input, 0, self.memory, self.memsize, Len(input)),
                 !.memsize = self.memsize + Len(input)]

\* self.total_len += rem as u64, as the release build computes it
add_len(total_len, rem) == WAdd(total_len, U64(rem))

\* write with <= for < in its first test: a slice that fills the buffer to
\* exactly 32 bytes is only buffered
write_le(self, input) ==
    LET rem == Len(input)
        s   == [self EXCEPT !.total_len = add_len(self.total_len, rem)]
    IN  IF s.memsize + rem <= 32
        THEN fill_only(s, input)
        ELSE save_rest(main_loop(fill_and_eat([self |-> s, data |-> 0, rem |-> rem],
                                              input), input), input)

\* write with total_len counted after the early return: buffered slices are
\* not counted
write_len_late(self, input) ==
    LET rem == Len(input)
        s   == [self EXCEPT !.total_len = add_len(self.total_len, rem)]
    IN  IF self.memsize + rem < 32
        THEN fill_only(self, input)
        ELSE save_rest(main_loop(fill_and_eat([self |-> s, data |-> 0, rem |-> rem],
                                              input), input), input)

\* Hasher::write
write(self, input) ==
    LET rem == Len(input)
        s   == [self EXCEPT !.total_len = add_len(self.total_len, rem)]
    IN  IF s.memsize + rem < 32
        THEN fill_only(s, input)
        ELSE save_rest(main_loop(fill_and_eat([self |-> s, data |-> 0, rem |-> rem],
                                              input), input), input)

\* clone without the buffer: the lanes and the counters only
clone_lanes_only(self) ==
    [memory |-> SubSeq([i \in 1..32 |-> 0], 1, 32),
     v1 |-> self.v1, v2 |-> self.v2, v3 |-> self.v3, v4 |-> self.v4,
     total_len |-> self.total_len, seed |-> self.seed,
     memsize |-> self.memsize]

\* Clone::clone: *self, a copy of every field of the struct (it is Copy)
clone(self) ==
    [memory |-> self.memory,
     v1 |-> self.v1, v2 |-> self.v2, v3 |-> self.v3, v4 |-> self.v4,
     total_len |-> self.total_len, seed |-> self.seed,
     memsize |-> self.memsize]

\* fn oneshot
oneshot(input, seed, uninit) == finish(write(new_with_seed(seed, uninit), input))

\* hash of a value cut to its low 32 bits
hash_low_u32(bytes, uninit) == finish(write(new(uninit), SubSeq(bytes, 1, 4)))

\* fn hash, for a value whose Hash implementation writes bytes in one call
\* (the integers of the tests)
hash(bytes, uninit) == finish(write(new(uninit), bytes))

\* fn zero_byte of test_hash_no_bytes_dropped_64 and _32: val is a u64 or a
\* u32, val & !(0xff << (byte * 8))
zero_byte(val, byte) ==
    SubSeq(WAnd(AsU64(val), WNot(WShl(U64(255), byte * 8))), 1, Len(val))

\* the closure of test_oneshot
test_oneshot(v, seed, uninit) == finish(write(new_with_seed(seed, uninit), v))

\* for chunk in v.chunks(size) { state.write(chunk) }, from offset at
RECURSIVE write_chunks(_, _, _, _)
write_chunks(self, v, size, at) ==
    IF at >= Len(v) THEN self
    ELSE LET end == IF at + size < Len(v) THEN at + size ELSE Len(v)
         IN  write_chunks(write(self, SubSeq(v, at + 1, end)), v, size, end)

\* the closure of test_chunks
test_chunks(v, seed, uninit) ==
    finish(write_chunks(new_with_seed(seed, uninit), v, 15, 0))

----------------------------------------------------------------------------
(* The inputs of the model.                                                *)

\* static BUFSIZE of test_base
BUFSIZE == 101

\* static PRIME: u32 of test_base, 2654435761
PRIME == <<177, 121, 55, 158>>

\* k rounds of the loop of test_base that fills buf: the bytes pushed and
\* random after them; random is a Wrapping<u32>
RECURSIVE test_push(_, _)
test_push(random, k) ==
    IF k = 0 THEN [buf |-> <<>>, random |-> random]
    ELSE LET rest == test_push(WMul32(random, random), k - 1)
         IN  [buf |-> <<Shr32(random, 24)[1]>> \o rest.buf,
              random |-> rest.random]

\* the loop of test_base that fills buf, n rounds, eight at a time
RECURSIVE test_buf(_, _)
test_buf(random, n) ==
    IF n = 0 THEN <<>>
    ELSE LET k    == IF n > 8 THEN 8 ELSE n
             some == test_push(random, k)
         IN  some.buf \o test_buf(some.random, n - k)

\* the bytes of the caller's buffers: buf of test_base, a buffer whose
\* bytes all differ within a stripe, and 0xdeadbeef_deadbeef_u64 of the
\* tests, whose low four bytes are 0xdeadbeef_u32
Inputs ==
    << test_buf(PRIME, BUFSIZE),
       SubSeq([i \in 1..BUFSIZE |-> (i * 37 + 101) % 256], 1, BUFSIZE),
       <<239, 190, 173, 222, 239, 190, 173, 222>> >>

\* the seeds of the hashers: PRIME as u64 (test_base) and HAPPY_SEED (new)
Seeds == {AsU64(PRIME), HAPPY_SEED}

\* what mem::uninitialized() may return: every field is arbitrary
Uninit ==
    { [memory |-> SubSeq([i \in 1..32 |-> (i * k) % 256], 1, 32),
       v1 |-> U64(k), v2 |-> U64(k), v3 |-> U64(k), v4 |-> U64(k),
       total_len |-> U64(k), seed |-> U64(k), memsize |-> k] : k \in {85, 171} }

\* the longest stream one hasher is fed
MaxLen == 70

\* the longest slice of one write
MaxChunk == 70

\* the bytes one hasher is fed over its life when it is also reset
MaxTotal == 34

\* the longest slice handed to a function, the whole buf of test_base apart
MaxSize == 33

\* the number of reset calls on one hasher
MaxResets == 1

NoResult == <<>>

\* the caller holds one hasher only
NoOther == [live |-> FALSE]

----------------------------------------------------------------------------
(* One hasher and its caller.                                              *)

VARIABLES
    state,      \* the XXHasher
    input,      \* the buffer the caller feeds from: an index of Inputs
    spent,      \* the bytes of it written before the last reset
    fed,        \* the bytes of it written since creation or the last reset
    last,       \* the last call: "new", "write", "finish", "reset", ...
    result,     \* what the last call returned, NoResult if nothing
    asked,      \* finish was called earlier on this stream, before a write
    resets,     \* the number of reset calls so far
    panicked,   \* a call panicked
    other       \* a second XXHasher of the caller, NoOther if there is none

vars == <<state, input, spent, fed, last, result, asked, resets, panicked, other>>

\* the bytes written since creation or the last reset
Stream == SubSeq(Inputs[input], spent + 1, spent + fed)

\* the next n bytes of the caller's buffer
Slice(n) == SubSeq(Inputs[input], spent + fed + 1, spent + fed + n)

\* let mut state = XXHasher::new_with_seed(seed), to hash the second buffer
Init ==
    \E seed \in Seeds, uninit \in Uninit :
        /\ state = new_with_seed(seed, uninit)
        /\ input = 2
        /\ spent = 0
        /\ fed = 0
        /\ last = "new"
        /\ result = NoResult
        /\ asked = FALSE
        /\ resets = 0
        /\ panicked = FALSE
        /\ other = NoOther

\* state.write(slice), the caller having limit bytes in all
WriteUpTo(limit) ==
    \E n \in 0..MaxChunk :
        /\ spent + fed + n <= limit
        /\ state' = write(state, Slice(n))
        /\ fed' = fed + n
        /\ last' = "write"
        /\ result' = NoResult
        /\ asked' = (asked \/ last = "finish")
        /\ UNCHANGED <<input, spent, resets, panicked, other>>

Write == WriteUpTo(MaxLen)

\* finish that consumes the buffer it reads, as if rem were self.memsize
Finish_consuming ==
    /\ result' = finish(state)
    /\ state' = [state EXCEPT !.memsize = 0]
    /\ last' = "finish"
    /\ UNCHANGED <<input, spent, fed, asked, resets, panicked, other>>

\* state.finish()
Finish ==
    /\ result' = finish(state)
    /\ last' = "finish"
    /\ UNCHANGED <<state, input, spent, fed, asked, resets, panicked, other>>

Next == Write \/ Finish

Spec == Init /\ [][Next]_vars

\* state.reset(): the next input starts a new hash
Reset ==
    /\ resets < MaxResets
    /\ state' = reset(state)
    /\ spent' = spent + fed
    /\ fed' = 0
    /\ last' = "reset"
    /\ result' = NoResult
    /\ asked' = FALSE
    /\ resets' = resets + 1
    /\ UNCHANGED <<input, panicked, other>>

\* state.write(slice) of a hasher that is fed MaxTotal bytes over its life
WriteR == WriteUpTo(MaxTotal)

NextR == WriteR \/ Finish \/ Reset

\* let mut state = XXHasher::new()
InitR == Init /\ state.seed = HAPPY_SEED

\* the hasher when the caller also resets it
SpecReset == InitR /\ [][NextR]_vars

----------------------------------------------------------------------------
(* The functions of the crate and the closures of its tests, called on a   *)
(* slice and a seed: the slice is the first fed bytes of a buffer, the     *)
(* seed is state.seed.  Each call makes its own hasher from uninitialized  *)
(* memory and drops it.                                                    *)

\* the seeds of test_base
TestSeeds == {U64(0), AsU64(PRIME)}

\* the sizes of the slices: test_base takes 1, 14 and BUFSIZE
Sizes == (0..MaxSize) \cup {BUFSIZE}

InitFn ==
    \E seed \in TestSeeds \cup Seeds, uninit \in Uninit,
       d \in DOMAIN Inputs, size \in Sizes :
        /\ size <= Len(Inputs[d])
        /\ state = new_with_seed(seed, uninit)
        /\ input = d
        /\ spent = 0
        /\ fed = size
        /\ last = "new"
        /\ result = NoResult
        /\ asked = FALSE
        /\ resets = 0
        /\ panicked = FALSE
        /\ other = NoOther

\* a call f(Stream, state.seed) that returns r
Call(f, r) ==
    /\ result' = r
    /\ last' = f
    /\ UNCHANGED <<state, input, spent, fed, asked, resets, panicked, other>>

\* test_oneshot: f is |v, seed| { new_with_seed(seed); write(v); finish() }
TestOneshot ==
    \E uninit \in Uninit :
        Call("test_oneshot", test_oneshot(Stream, state.seed, uninit))

\* test_chunks: f writes v.chunks(15)
TestChunks ==
    \E uninit \in Uninit :
        Call("test_chunks", test_chunks(Stream, state.seed, uninit))

\* oneshot(input, seed)
Oneshot ==
    \E uninit \in Uninit :
        Call("oneshot", oneshot(Stream, state.seed, uninit))

\* hash(&value), value a u32 or a u64 with the bytes of the slice
Hash ==
    /\ fed \in {4, 8}
    /\ \E uninit \in Uninit : Call("hash", hash(Stream, uninit))

NextFn == TestOneshot \/ TestChunks \/ Oneshot \/ Hash

SpecFn == InitFn /\ [][NextFn]_vars

----------------------------------------------------------------------------
(* A hasher that has been fed for long: total_len is one stripe short of   *)
(* 2^64.  The lanes that 2^59 stripes leave cannot be computed here; eat   *)
(* is a bijection of the word for a given lane (PRIME1 and PRIME2 are odd),*)
(* so the last stripe can leave any lanes, and the lanes taken are those   *)
(* the first stripe of the buffer leaves.  fed and Stream count from this  *)
(* state on.                                                               *)

\* 2^64 - 32
LongStart == WSub(U64(0), U64(32))

InitLong ==
    \E seed \in Seeds, uninit \in Uninit :
        /\ state = [write(new_with_seed(seed, uninit), SubSeq(Inputs[2], 1, 32))
                        EXCEPT !.total_len = LongStart]
        /\ input = 2
        /\ spent = 0
        /\ fed = 0
        /\ last = "write"
        /\ result = NoResult
        /\ asked = FALSE
        /\ resets = 0
        /\ panicked = FALSE
        /\ other = NoOther

\* state.write(slice) in a build with overflow checks (debug-assertions):
\* self.total_len += rem as u64 panics when the sum does not fit a u64,
\* before anything is written
WritePanic ==
    \E n \in 0..MaxChunk :
        /\ spent + fed + n <= MaxTotal
        /\ CarryOut(state.total_len, U64(n)) = 1
        /\ panicked' = TRUE
        /\ last' = "write"
        /\ result' = NoResult
        /\ UNCHANGED <<state, input, spent, fed, asked, resets, other>>

\* state.write(slice) in a build without overflow checks, where += wraps
WriteWrap ==
    /\ ~panicked
    /\ WriteUpTo(MaxTotal)

NextLong == WriteWrap \/ WritePanic \/ Finish

SpecLong == InitLong /\ [][NextLong]_vars

----------------------------------------------------------------------------
(* Two hashers of one caller, whose calls interleave.  The second one is   *)
(* made with its own seed or is a clone of the first; it is fed from the   *)
(* first buffer.  other is [live, state, stream, at, resets]: the hasher,  *)
(* the bytes written to it since its creation or last reset (for a clone,  *)
(* since the creation or last reset of the hasher it was cloned from), the *)
(* bytes it took from its buffer, and its reset calls.                     *)

\* the lengths of the slices the two hashers are fed: nothing, less than a
\* stripe (two of them pass a stripe), more than a stripe
TwoSlices == {0, 20, 33}

\* let mut other = XXHasher::new_with_seed(seed)
Made(seed, uninit) ==
    [live |-> TRUE, state |-> new_with_seed(seed, uninit),
     stream |-> <<>>, at |-> 0, resets |-> 0]

InitTwo ==
    /\ state = new_with_seed(AsU64(PRIME), CHOOSE u \in Uninit : u.memsize = 85)
    /\ input = 2
    /\ spent = 0
    /\ fed = 0
    /\ last = "new"
    /\ result = NoResult
    /\ asked = FALSE
    /\ resets = 0
    /\ panicked = FALSE
    /\ other \in {NoOther, Made(HAPPY_SEED, CHOOSE u \in Uninit : u.memsize = 171)}

\* state.write(slice)
WriteTwo ==
    \E n \in TwoSlices :
        /\ spent + fed + n <= MaxTotal
        /\ state' = write(state, Slice(n))
        /\ fed' = fed + n
        /\ last' = "write"
        /\ result' = NoResult
        /\ asked' = (asked \/ last = "finish")
        /\ UNCHANGED <<input, spent, resets, panicked, other>>

\* let mut other = state.clone()
Clone ==
    /\ ~other.live
    /\ other' = [live |-> TRUE, state |-> clone(state),
                 stream |-> Stream, at |-> 0, resets |-> 0]
    /\ last' = "clone"
    /\ result' = NoResult
    /\ UNCHANGED <<state, input, spent, fed, asked, resets, panicked>>

\* other.write(slice)
OtherWrite ==
    \E n \in TwoSlices :
        /\ other.live
        /\ other.at + n <= MaxTotal
        /\ LET slice == SubSeq(Inputs[1], other.at + 1, other.at + n)
           IN  other' = [other EXCEPT !.state = write(@, slice),
                                      !.stream = @ \o slice,
                                      !.at = @ + n]
        /\ last' = "other.write"
        /\ result' = NoResult
        /\ UNCHANGED <<state, input, spent, fed, asked, resets, panicked>>

\* other.finish()
OtherFinish ==
    /\ other.live
    /\ result' = finish(other.state)
    /\ last' = "other.finish"
    /\ UNCHANGED <<state, input, spent, fed, asked, resets, panicked, other>>

\* other.reset()
OtherReset ==
    /\ other.live
    /\ other.resets < MaxResets
    /\ other' = [other EXCEPT !.state = reset(@),
                              !.stream = <<>>,
                              !.resets = @ + 1]
    /\ last' = "other.reset"
    /\ result' = NoResult
    /\ UNCHANGED <<state, input, spent, fed, asked, resets, panicked>>

NextTwo ==
    \/ WriteTwo \/ Finish \/ Reset
    \/ Clone \/ OtherWrite \/ OtherFinish \/ OtherReset

SpecTwo == InitTwo /\ [][NextTwo]_vars

----------------------------------------------------------------------------
(* What the claims compare the hasher with.                                *)

\* a newly created hasher with the seed of state, fed the stream in one write
Whole(uninit) == write(new_with_seed(state.seed, uninit), Stream)

\* two hashers agree on every field that is defined: the lanes, the seed,
\* the counters and the memsize bytes of memory in use
SameHasher(a, b) ==
    /\ a.v1 = b.v1 /\ a.v2 = b.v2 /\ a.v3 = b.v3 /\ a.v4 = b.v4
    /\ a.seed = b.seed
    /\ a.total_len = b.total_len
    /\ a.memsize = b.memsize
    /\ SubSeq(a.memory, 1, a.memsize) = SubSeq(b.memory, 1, b.memsize)

\* word i (1..4) of the 32-byte block k (from 0) of bytes
Word(bytes, k, i) == SubSeq(bytes, 32 * k + 8 * i - 7, 32 * k + 8 * i)

\* rotl(v + w * P2, 31) * P1
LaneAfter(v, w) == WMul(rotl64(WAdd(v, WMul(w, PRIME2)), 31), PRIME1)

\* the lanes <<v1, v2, v3, v4>> of a hasher with this seed after the blocks
\* 0 .. k - 1 of bytes were consumed in order, each once
RECURSIVE Lanes(_, _, _)
Lanes(seed, bytes, k) ==
    IF k = 0
    THEN <<WAdd(WAdd(seed, PRIME1), PRIME2), WAdd(seed, PRIME2),
           seed, WSub(seed, PRIME1)>>
    ELSE LET v == Lanes(seed, bytes, k - 1)
         IN  <<LaneAfter(v[1], Word(bytes, k - 1, 1)),
               LaneAfter(v[2], Word(bytes, k - 1, 2)),
               LaneAfter(v[3], Word(bytes, k - 1, 3)),
               LaneAfter(v[4], Word(bytes, k - 1, 4))>>

----------------------------------------------------------------------------
(* C1  Chunking invariance: whatever the slices the stream was written in, *)
(* finish on the hasher returns what oneshot returns on the whole stream   *)
(* with the same seed.                                                     *)

C1_ChunkingInvariance ==
    \A uninit \in Uninit : finish(state) = oneshot(Stream, state.seed, uninit)

\* a stream longer than two stripes, written in slices that left the hasher
\* in another state than one write of the whole stream does
C1_Witness ==
    /\ fed > 64
    /\ \A uninit \in Uninit : state # Whole(uninit)
    /\ \A uninit \in Uninit : finish(state) = oneshot(Stream, state.seed, uninit)

----------------------------------------------------------------------------
(* C3  Running hash: every finish call, before any write, between writes   *)
(* or at the end, returns oneshot of the bytes written so far, also when   *)
(* finish was called earlier on the stream.                                *)

C3_RunningHash ==
    last = "finish" =>
        \A uninit \in Uninit : result = finish(Whole(uninit))

\* a finish past the first stripe with bytes in the buffer, after an
\* earlier finish and a write
C3_Witness ==
    /\ last = "finish"
    /\ asked
    /\ fed > 32
    /\ state.memsize > 0
    /\ result = finish(state)

----------------------------------------------------------------------------
(* C4  finish is a pure read: a finish call leaves every field of the      *)
(* hasher as it was, and a finish call right after a finish call returns   *)
(* the same value.                                                         *)

C4_DigestPure ==
    [][last' = "finish" =>
          /\ state' = state
          /\ (last = "finish" => result' = result)]_vars

\* finish has returned on a hasher that holds lanes and buffered bytes
C4_Witness ==
    /\ last = "finish"
    /\ result # NoResult
    /\ ~WLt(state.total_len, U64(32))
    /\ state.memsize >= 13

----------------------------------------------------------------------------
(* C5  memsize < 32 in every state that write and reset calls reach.       *)

C5_MemsizeBelow32 == state.memsize < 32

\* a write that filled the buffer to exactly 32 bytes: the buffer holds the
\* whole first stripe and is empty again
C5_Witness ==
    /\ last = "write"
    /\ fed = 32
    /\ state.memory = Stream
    /\ state.memsize = 0

----------------------------------------------------------------------------
(* C6  total_len is the number of bytes written since creation or the last *)
(* reset.                                                                  *)

C6_TotalLenIsSum == state.total_len = U64(fed)

\* after a reset that followed writes, a stream of more than one stripe
C6_Witness ==
    /\ resets = 1
    /\ spent > 0
    /\ fed > 32
    /\ state.total_len = U64(fed)

----------------------------------------------------------------------------
(* C7  Empty input: on a hasher just created or just reset, finish takes   *)
(* the total_len < 32 branch, reads no byte of the buffer and returns      *)
(* avalanche(seed + PRIME5 + 0); so does oneshot of the empty slice.       *)

C7_EmptyInput ==
    fed = 0 =>
        LET empty == avalanche(WAdd(WAdd(state.seed, PRIME5), U64(0)))
        IN  /\ WLt(state.total_len, U64(32))
            /\ finish_tail(state).p = 0
            /\ finish(state) = empty
            /\ last = "finish" => result = empty
            /\ \A uninit \in Uninit : oneshot(<<>>, state.seed, uninit) = empty

\* finish on a hasher reset after it had consumed a stripe and buffered bytes
C7_Witness ==
    /\ fed = 0
    /\ last = "finish"
    /\ resets = 1
    /\ spent > 32
    /\ result = avalanche(WAdd(state.seed, PRIME5))

----------------------------------------------------------------------------
(* C8  reset initializes as creation does: right after reset the lanes are *)
(* seed + PRIME1 + PRIME2, seed + PRIME2, seed, seed - PRIME1 and both     *)
(* counters are 0, and from then on the hasher agrees with a newly created *)
(* hasher of the same seed that was fed the same bytes.                    *)

C8_ResetIsCreation ==
    /\ last = "reset" =>
          /\ state.v1 = WAdd(WAdd(state.seed, PRIME1), PRIME2)
          /\ state.v2 = WAdd(state.seed, PRIME2)
          /\ state.v3 = state.seed
          /\ state.v4 = WSub(state.seed, PRIME1)
          /\ state.total_len = U64(0)
          /\ state.memsize = 0
    /\ resets > 0 =>
          \A uninit \in Uninit :
              LET whole == Whole(uninit)
                  made  == finish(whole)
              IN  /\ SameHasher(state, whole)
                  /\ IF last = "finish" THEN result = made
                                        ELSE finish(state) = made

\* a hasher that consumed a stripe, was reset and consumed a stripe again
C8_Witness ==
    /\ resets = 1
    /\ spent > 0
    /\ fed >= 32
    /\ last = "finish"
    /\ state.memory # Stream

----------------------------------------------------------------------------
(* C2  Reference vectors: on the first 1, 14 and 101 bytes of buf of       *)
(* test_base, with seeds 0 and PRIME, the closures of test_oneshot (one    *)
(* write) and of test_chunks (writes of 15 bytes) return the six values of *)
(* test_base.                                                              *)

\* the expected value of test(size, seed, expected), NoResult for other
\* arguments
Expected(size, seed) ==
    CASE size = 1 /\ seed = U64(0) ->
             \* 0x4FCE394CC88952D8
             <<216, 82, 137, 200, 76, 57, 206, 79>>
      [] size = 1 /\ seed = AsU64(PRIME) ->
             \* 0x739840CB819FA723
             <<35, 167, 159, 129, 203, 64, 152, 115>>
      [] size = 14 /\ seed = U64(0) ->
             \* 0xCFFA8DB881BC3A3D
             <<61, 58, 188, 129, 184, 141, 250, 207>>
      [] size = 14 /\ seed = AsU64(PRIME) ->
             \* 0x5B9611585EFCC9CB
             <<203, 201, 252, 94, 88, 17, 150, 91>>
      [] size = BUFSIZE /\ seed = U64(0) ->
             \* 0x0EAB543384F878AD
             <<173, 120, 248, 132, 51, 84, 171, 14>>
      [] size = BUFSIZE /\ seed = AsU64(PRIME) ->
             \* 0xCAA65939306F1E21
             <<33, 30, 111, 48, 57, 89, 166, 202>>
      [] OTHER -> NoResult

C2_ReferenceVectors ==
    (/\ input = 1
     /\ last \in {"test_oneshot", "test_chunks"}
     /\ Expected(fed, state.seed) # NoResult)
        => result = Expected(fed, state.seed)

\* test_chunks returned the sixth value: 101 bytes in seven writes
C2_Witness ==
    /\ input = 1
    /\ last = "test_chunks"
    /\ fed = BUFSIZE
    /\ state.seed = AsU64(PRIME)
    /\ result = <<33, 30, 111, 48, 57, 89, 166, 202>>

----------------------------------------------------------------------------
(* C10  Determinism: what oneshot returns on a slice and a seed, and what  *)
(* hash returns on a value, is the same for every content of the           *)
(* uninitialized memory the call starts from: the digest is a function of  *)
(* the seed and the bytes only.                                            *)

C10_Determinism ==
    /\ last = "oneshot" =>
          \A uninit \in Uninit : result = oneshot(Stream, state.seed, uninit)
    /\ last = "hash" =>
          \A uninit \in Uninit : result = hash(Stream, uninit)

\* hash has returned on a u64, and calls that start from different
\* uninitialized memory return that value
C10_Witness ==
    /\ last = "hash"
    /\ fed = 8
    /\ \E u1, u2 \in Uninit :
          /\ u1.memory # u2.memory
          /\ result = hash(Stream, u1)
          /\ result = hash(Stream, u2)

----------------------------------------------------------------------------
(* C9  No operation fails: write completes without error and adds the      *)
(* length of the slice to total_len modulo 2^64, also when the bytes       *)
(* written pass 2^64 - 1.                                                  *)

\* LongStart + fed modulo 2^64
LongTotal ==
    IF fed < 32 THEN WSub(U64(0), U64(32 - fed)) ELSE U64(fed - 32)

C9_NoFailure ==
    /\ ~panicked
    /\ state.total_len = LongTotal

\* what holds of the code: a write that returns has added the length of
\* the slice to total_len modulo 2^64
C9_TotalLenWraps == state.total_len = LongTotal

----------------------------------------------------------------------------
(* C11  Instance independence: whatever the order in which the calls on    *)
(* two hashers interleave, one of them possibly a clone of the other, each *)
(* hasher is, and finish on it returns, what its own calls alone give; a   *)
(* call on one hasher changes no field of the other.                       *)

\* a newly created hasher with the seed of other, fed the stream of other
OtherAlone(uninit) ==
    write(new_with_seed(other.state.seed, uninit), other.stream)

C11_EachAlone ==
    \A uninit \in Uninit :
        LET alone  == finish(Whole(uninit))
            oalone == finish(OtherAlone(uninit))
        IN  /\ SameHasher(state, Whole(uninit))
            /\ IF last = "finish" THEN result = alone
                                  ELSE finish(state) = alone
            /\ other.live =>
                  /\ SameHasher(other.state, OtherAlone(uninit))
                  /\ IF last = "other.finish" THEN result = oalone
                                              ELSE finish(other.state) = oalone

C11_InstanceIndependence ==
    /\ []C11_EachAlone
    /\ [][/\ last' \in {"write", "finish", "reset"} => other' = other
          /\ last' \in {"other.write", "other.finish", "other.reset"} =>
                state' = state
          /\ last' = "clone" => state' = state]_vars

\* a clone taken with bytes in the buffer consumed a stripe of its own
\* bytes and returned its digest, after the hasher it was cloned from was
\* fed other bytes and reset
C11_Witness ==
    /\ last = "other.finish"
    /\ other.live
    /\ other.at = 20
    /\ Len(other.stream) = 40
    /\ other.state.memsize = 8
    /\ resets = 1
    /\ fed = 20
    /\ result = finish(other.state)

----------------------------------------------------------------------------
(* C12  No byte is dropped: for a u64 or a u32 value, hash of the value    *)
(* differs from hash of the value with any one of its non-zero bytes set   *)
(* to zero: every byte of a 4-byte and of an 8-byte input reaches the      *)
(* digest.                                                                 *)

C12_NoBytesDropped ==
    last = "hash" =>
        \A byte \in 0..(fed - 1) :
            Stream[byte + 1] # 0 =>
                \A uninit \in Uninit :
                    result # hash(zero_byte(Stream, byte), uninit)

\* hash returned on 0xdeadbeef_deadbeef, and differs from hash of
\* 0x00adbeef_deadbeef
C12_Witness ==
    /\ last = "hash"
    /\ input = 3
    /\ fed = 8
    /\ zero_byte(Stream, 7) = <<239, 190, 173, 222, 239, 190, 173, 0>>
    /\ \A uninit \in Uninit : result # hash(zero_byte(Stream, 7), uninit)

----------------------------------------------------------------------------
(* C13  Seed sensitivity: for every slice that is not empty there are two  *)
(* seeds on which oneshot returns different values.                        *)

C13_SeedSensitivity ==
    (last = "oneshot" /\ fed > 0) =>
        \E s1, s2 \in TestSeeds \cup Seeds :
            /\ s1 # s2
            /\ \A uninit \in Uninit :
                  oneshot(Stream, s1, uninit) # oneshot(Stream, s2, uninit)

\* oneshot returned on a slice longer than a stripe, and returns another
\* value with another seed
C13_Witness ==
    /\ last = "oneshot"
    /\ fed = MaxSize
    /\ state.seed = U64(0)
    /\ \A uninit \in Uninit : result # oneshot(Stream, HAPPY_SEED, uninit)

----------------------------------------------------------------------------
(* C14  A short write only fills the buffer: when memsize + the length of  *)
(* the slice is below 32 on entry, write puts the slice in memory at       *)
(* offset memsize and adds its length to memsize; the lanes, the seed and  *)
(* the memsize bytes already in memory stay as they were.  A write of the  *)
(* empty slice leaves the whole hasher as it was.                          *)

C14_ShortWriteBuffers ==
    [][(last' = "write" /\ state.memsize + (fed' - fed) < 32) =>
          LET n == fed' - fed
              m == state.memsize
          IN  /\ SubSeq(state'.memory, m + 1, m + n) = Slice(n)
              /\ SubSeq(state'.memory, 1, m) = SubSeq(state.memory, 1, m)
              /\ state'.memsize = m + n
              /\ state'.v1 = state.v1 /\ state'.v2 = state.v2
              /\ state'.v3 = state.v3 /\ state'.v4 = state.v4
              /\ state'.seed = state.seed
              /\ n = 0 => state' = state]_vars

\* short writes only, one of them after a finish, put the stream in the buffer
C14_Witness ==
    /\ last = "write"
    /\ asked
    /\ fed = 31
    /\ state.memsize = 31
    /\ SubSeq(state.memory, 1, 31) = Stream

----------------------------------------------------------------------------
(* C15  Stream position: after any writes, with total_len the bytes        *)
(* written, the lanes have consumed the 32-byte blocks 0 .. total_len/32   *)
(* - 1 of the stream, each once and in order, and the first memsize bytes  *)
(* of memory are the last total_len mod 32 bytes of the stream, in order.  *)

C15_StreamPosition ==
    LET k == fed \div 32
    IN  /\ state.total_len = U64(fed)
        /\ <<state.v1, state.v2, state.v3, state.v4>> = Lanes(state.seed, Stream, k)
        /\ state.memsize = fed % 32
        /\ SubSeq(state.memory, 1, state.memsize) = SubSeq(Stream, 32 * k + 1, fed)

\* two stripes consumed, the first from the buffer and the second from the
\* input, in a write that also left bytes in the buffer
C15_Witness ==
    /\ last = "write"
    /\ fed = 2 * 32 + 6
    /\ state.memsize = 6
    /\ SubSeq(state.memory, 7, 32) = SubSeq(Stream, 7, 32)
    /\ state.v1 = LaneAfter(LaneAfter(WAdd(WAdd(state.seed, PRIME1), PRIME2),
                                     Word(Stream, 0, 1)), Word(Stream, 1, 1))

----------------------------------------------------------------------------
(* C16  Lane independence: a write that consumes one stripe, with words    *)
(* w1..w4 in stream order, takes lane i to rotl(v_i + w_i * P2, 31) * P1,  *)
(* a function of the old lane i and of word i only, whether the stripe is  *)
(* read from the buffer or from the input.                                 *)

C16_LaneIndependence ==
    [][(last' = "write" /\ fed' \div 32 = (fed \div 32) + 1) =>
          LET k     == fed \div 32
              bytes == SubSeq(Inputs[input], spent + 1, spent + fed')
          IN  /\ state'.v1 = LaneAfter(state.v1, Word(bytes, k, 1))
              /\ state'.v2 = LaneAfter(state.v2, Word(bytes, k, 2))
              /\ state'.v3 = LaneAfter(state.v3, Word(bytes, k, 3))
              /\ state'.v4 = LaneAfter(state.v4, Word(bytes, k, 4))]_vars

\* the second stripe was completed in the buffer and consumed from it
C16_Witness ==
    /\ last = "write"
    /\ fed = 64
    /\ state.memsize = 0
    /\ state.memory = SubSeq(Stream, 33, 64)
    /\ state.v4 = LaneAfter(LaneAfter(WSub(state.seed, PRIME1), Word(Stream, 0, 4)),
                            Word(Stream, 1, 4))

----------------------------------------------------------------------------
(* C17  Lane merge: in finish with total_len >= 32, after h = rotl(v1, 1)  *)
(* + rotl(v2, 7) + rotl(v3, 12) + rotl(v4, 18), the four merge steps are   *)
(* applied in the order v1, v2, v3, v4, and the order matters: each step   *)
(* multiplies h by PRIME1 and adds PRIME4 after the xor, so for the lanes  *)
(* reached another order gives another h.                                  *)

\* the orders in which four lanes can be merged
Orders == {o \in [1..4 -> 1..4] : \A i, j \in 1..4 : o[i] = o[j] => i = j}

\* h after the lanes of self were merged in this order
MergeIn(self, o) ==
    LET v == <<self.v1, self.v2, self.v3, self.v4>>
        h == WAdd(WAdd(WAdd(rotl64(self.v1, 1), rotl64(self.v2, 7)),
                       rotl64(self.v3, 12)), rotl64(self.v4, 18))
    IN  permute(permute(permute(permute(h, v[o[1]]), v[o[2]]), v[o[3]]), v[o[4]])

C17_MergeInLaneOrder ==
    ~WLt(state.total_len, U64(32)) =>
        /\ merge(state) = MergeIn(state, <<1, 2, 3, 4>>)
        /\ finish_head(state) = WAdd(MergeIn(state, <<1, 2, 3, 4>>), state.total_len)
        /\ \E o \in Orders : MergeIn(state, o) # merge(state)

\* finish has merged the lanes of two stripes; v2 before v1 gives another h
C17_Witness ==
    /\ last = "finish"
    /\ fed >= 64
    /\ ~WLt(state.total_len, U64(32))
    /\ result = finish(state)
    /\ MergeIn(state, <<2, 1, 3, 4>>) # merge(state)

\* the claim as stated: every order of the four merge steps gives the same h
C17_AnyOrder ==
    ~WLt(state.total_len, U64(32)) =>
        \A o \in Orders : MergeIn(state, o) = merge(state)

----------------------------------------------------------------------------
(* C18  Branch consistency: in every reachable state total_len < 32 holds  *)
(* exactly when no stripe was consumed since the last reset, that is when  *)
(* the lanes hold their reset values; finish skips the merge of the lanes  *)
(* only then.                                                              *)

\* the lanes are as reset left them
LanesAsReset ==
    <<state.v1, state.v2, state.v3, state.v4>> = Lanes(state.seed, <<>>, 0)

C18_BranchConsistency ==
    /\ WLt(state.total_len, U64(32)) <=> LanesAsReset
    /\ LanesAsReset <=> finish_head(state) = WAdd(WAdd(state.seed, PRIME5),
                                                  state.total_len)

----------------------------------------------------------------------------
(* C19  The tail of finish: with memsize = n, finish reads the bytes 0 ..   *)
(* n - 1 of memory in order, each once: n / 8 steps of 8 bytes, then one   *)
(* step of 4 bytes exactly when n mod 8 >= 4, then n mod 4 steps of one    *)
(* byte, and no byte is left before the avalanche.                         *)

\* the cursor [p, rem, h64] of finish after the 8-byte loop
After8 ==
    tail8(state.memory,
          [p |-> 0, rem |-> state.memsize, h64 |-> finish_head(state)])

\* ... after the 4-byte step
After4 == tail4(state.memory, After8)

\* ... after the 1-byte loop
After1 == tail1(state.memory, After4)

C19_TailSteps ==
    LET n  == state.memsize
        a8 == After8
        a4 == tail4(state.memory, a8)
        a1 == tail1(state.memory, a4)
    IN  /\ a8.p = 8 * (n \div 8)
        /\ a8.rem = n % 8
        /\ a4.p - a8.p = (IF n % 8 >= 4 THEN 4 ELSE 0)
        /\ a4.rem = n % 4
        /\ a1.p - a4.p = n % 4
        /\ a1.p = n
        /\ a1.rem = 0
        /\ last = "finish" => result = avalanche(a1.h64)

\* finish returned with 31 bytes in the buffer: three steps of 8 bytes, one
\* of 4 and three of 1
C19_Witness ==
    /\ last = "finish"
    /\ state.memsize = 31
    /\ After8.p = 24
    /\ After4.p = 28
    /\ After1.p = 31
    /\ result = avalanche(After1.h64)

----------------------------------------------------------------------------
(* C20  Stale bytes do not interfere: finish does not depend on the bytes  *)
(* of memory at index >= memsize.  A hasher that differs from state only   *)
(* in those bytes returns the same digest, and after the same further      *)
(* write the two still agree on every field in use and on the digest.      *)

\* what the bytes past memsize may hold
Junk ==
    { SubSeq([i \in 1..32 |-> (i * k + 7) % 256], 1, 32) : k \in {0, 113} }

\* state with other bytes past memsize
Twin(junk) ==
    [state EXCEPT !.memory = SubSeq(state.memory, 1, state.memsize)
                             \o SubSeq(junk, state.memsize + 1, 32)]

\* the lengths of the further write: it stays in the buffer or fills it, or
\* passes it
FurtherLens == {1, 31}

C20_StaleBytes ==
    \A junk \in Junk :
        LET twin == Twin(junk)
            same == finish(state)
        IN  /\ SameHasher(twin, state)
            /\ finish(twin) = same
            /\ last = "finish" => result = same
            /\ \A n \in FurtherLens :
                  spent + fed + n <= Len(Inputs[input]) =>
                      LET a == write(state, Slice(n))
                          b == write(twin, Slice(n))
                      IN  /\ SameHasher(a, b)
                          /\ finish(a) = finish(b)

\* a hasher with 5 bytes in the buffer after the bytes of a consumed
\* stripe, and a twin that holds other bytes there, return the same digest
C20_Witness ==
    /\ last = "finish"
    /\ fed = 37
    /\ state.memsize = 5
    /\ SubSeq(state.memory, 6, 32) = SubSeq(Stream, 6, 32)
    /\ \E junk \in Junk :
          /\ Twin(junk).memory # state.memory
          /\ finish(Twin(junk)) = result
====
